---- MODULE Spec2Model ----
(***************************************************************************)
(* A model of ascii-earth.py: the coordinate mapper lat_lon_to_screen, the *)
(* cached land rasterizer generate_globe, the day/night shading            *)
(* apply_day_night_shading and the render loop render_globe.               *)
(*                                                                         *)
(* Numbers.  The program computes in binary floating point.  The model     *)
(* computes the same expressions over exact rationals [n |-> numerator,    *)
(* d |-> positive denominator].  Python lists, strings and numpy arrays    *)
(* are 0-based; the model keeps them as TLA+ sequences and reads index i   *)
(* at position i + 1.  numpy arrays are mutable objects: the model keeps   *)
(* them in a heap (arrays) and passes references (ids), so that sharing    *)
(* and copying are different things.                                       *)
(***************************************************************************)
EXTENDS Integers, Sequences, FiniteSets, TLC

VARIABLES
    pc,                  \* "running" | "crashed" (uncaught IndexError) | "quit"
    longitude_shift,     \* render_globe's local longitude_shift
    prev_globe_strings,  \* render_globe's local prev_globe_strings: None (set = FALSE) or a list
    LAND_CACHE,          \* the module-level dict: (width, height) -> array reference
    arrays,              \* the heap of numpy arrays: reference -> grid
    globe,               \* render_globe's local globe: an array reference
    land_shapes,         \* the geometries of the land feature (external data)
    utc_hour,            \* the clock: datetime.now(timezone.utc).hour
    frames,              \* number of loop iterations started
    last,                \* what the last iteration did (observation only)
    populated,           \* per cache key: how it was populated (observation only)
    returned,            \* per cache key: the grids generate_globe returned (observation only)
    call,                \* arguments of the last direct call of a pure function
    ret                  \* its result

vars == <<pc, longitude_shift, prev_globe_strings, LAND_CACHE, arrays, globe,
          land_shapes, utc_hour, frames, last, populated, returned, call, ret>>

loopVars == <<pc, longitude_shift, prev_globe_strings, LAND_CACHE, arrays, globe,
              land_shapes, utc_hour, frames, last, populated, returned>>

\* Python's None, for an array reference
NoArray == 0

----------------------------------------------------------------------------
(* Program constants *)

ASCII_SHADES == <<" ", ".", ":", "-", "=", "+", "*", "#", "%", "@">>

ROTATION_SPEED == 3

MIN_WIDTH == 20

MAX_WIDTH == 80

MIN_HEIGHT == 10

MAX_HEIGHT == 40

MARGIN == 2

HOURS_PER_DAY == 24

DEGREES_PER_HOUR == 15

FULL_TURN == 360

HALF_TURN == 180

QUARTER_TURN == 90

OVERSAMPLING == 2

----------------------------------------------------------------------------
(* Bounds of the model *)

\* lat_lon_to_screen is called directly with widths 1..MaxMapWidth
MaxMapWidth == 3

\* ... and heights 1..MaxMapHeight
MaxMapHeight == 3

\* ... with longitudes k * 45/2 degrees, k in -MaxLonK..MaxLonK
MaxLonK == 18

\* ... with rotation offsets k * 75/2 degrees, k in -MaxShiftK..MaxShiftK
MaxShiftK == 13

----------------------------------------------------------------------------
(* Exact arithmetic for the program's float expressions *)

Rat(n, d) == [n |-> n, d |-> d]

RInt(k) == Rat(k, 1)

RAdd(a, b) == Rat(a.n * b.d + b.n * a.d, a.d * b.d)

RSub(a, b) == Rat(a.n * b.d - b.n * a.d, a.d * b.d)

RMulInt(a, k) == Rat(a.n * k, a.d)

\* a / k for an integer k > 0
RDivInt(a, k) == Rat(a.n, a.d * k)

\* Python's a % m for m > 0: the result has the sign of m, so lies in [0, m)
RMod(a, m) == Rat(a.n % (m * a.d), a.d)

RAbs(a) == Rat(IF a.n < 0 THEN -a.n ELSE a.n, a.d)

RGt(a, b) == a.n * b.d > b.n * a.d

REq(a, b) == a.n * b.d = b.n * a.d

\* Python's int(): truncation toward zero
RTrunc(a) == IF a.n >= 0 THEN a.n \div a.d ELSE -((-a.n) \div a.d)

Min(a, b) == IF a < b THEN a ELSE b

Max(a, b) == IF a > b THEN a ELSE b

----------------------------------------------------------------------------
(* lat_lon_to_screen(lat, lon, width, height, longitude_shift); the last   *)
(* parameter is called shift here, longitude_shift being a variable.       *)

\* lines 21-23: shift, reduce modulo 360, fold (180, 360) onto (-180, 0)
ShiftedLongitude(lon, shift) ==
    LET lon_shifted == RMod(RAdd(lon, shift), FULL_TURN)
    IN  IF RGt(lon_shifted, RInt(HALF_TURN))
        THEN RSub(lon_shifted, RInt(FULL_TURN))
        ELSE lon_shifted

\* a variant that forgets the wrap around the seam (no "% width")
ScreenColumnNoWrap(lon_shifted, width) ==
    RTrunc(RMulInt(RDivInt(RAdd(lon_shifted, RInt(HALF_TURN)), FULL_TURN), width))

\* line 25
ScreenColumn(lon_shifted, width) ==
    RTrunc(RMulInt(RDivInt(RAdd(lon_shifted, RInt(HALF_TURN)), FULL_TURN), width)) % width

\* a variant that forgets the clamp of the row
ScreenRowNoClamp(lat, height) ==
    RTrunc(RMulInt(RDivInt(RSub(RInt(QUARTER_TURN), lat), HALF_TURN), height))

\* lines 26-27
ScreenRow(lat, height) ==
    LET y == RTrunc(RMulInt(RDivInt(RSub(RInt(QUARTER_TURN), lat), HALF_TURN), height))
    IN  Max(0, Min(y, height - 1))

\* the (x, y) pair the function returns
lat_lon_to_screen(lat, lon, width, height, shift) ==
    <<ScreenColumn(ShiftedLongitude(lon, shift), width),
      ScreenRow(lat, height)>>

----------------------------------------------------------------------------
(* generate_globe(longitude_shift, width, height)                          *)

\* np.linspace(start, stop, num) for num > 1: num evenly spaced samples, both
\* ends included
LinSpace(start, stop, num) ==
    {Rat(start * (num - 1) + (stop - start) * i, num - 1) : i \in 0..(num - 1)}

\* land.contains(Point(lon, lat)) for a shape that is a rectangle of whole
\* degrees: the interior only, as shapely's contains
Contains(land, lon, lat) ==
    /\ RGt(lon, RInt(land.w)) /\ RGt(RInt(land.e), lon)
    /\ RGt(lat, RInt(land.s)) /\ RGt(RInt(land.n), lat)

\* lines 43-53: the cells the land samples fall in, mapped with offset shift
LandCells(shapes, width, height, shift) ==
    LET lat_steps == LinSpace(-QUARTER_TURN, QUARTER_TURN, height * OVERSAMPLING)
        lon_steps == LinSpace(-HALF_TURN, HALF_TURN, width * OVERSAMPLING)
        inside == {p \in lat_steps \X lon_steps :
                      \E land \in shapes : Contains(land, p[2], p[1])}
    IN  {lat_lon_to_screen(p[1], p[2], width, height, RInt(shift)) : p \in inside}

\* lines 36-53: the array a cache miss builds
Rasterize(shapes, width, height, shift) ==
    LET cells == LandCells(shapes, width, height, shift)
    IN  [y \in 1..height |->
            [x \in 1..width |-> IF <<x - 1, y - 1>> \in cells THEN "#" ELSE " "]]

\* a reference no array of the heap has
NewRef(heap) == CHOOSE r \in 1..(Cardinality(DOMAIN heap) + 1) : r \notin DOMAIN heap

\* a variant that returns the array itself instead of a copy
np_alias(heap, ref) == [arrays |-> heap, ref |-> ref]

\* line 57, np.copy: a new array with the same contents
np_copy(heap, ref) ==
    LET r == NewRef(heap)
    IN  [arrays |-> (r :> heap[ref]) @@ heap, ref |-> r]

\* lines 33-57.  cache and heap are LAND_CACHE and the arrays before the call;
\* the result holds them after the call, the reference returned, and whether
\* the call was a cache hit
generate_globe(cache, heap, shapes, shift, width, height) ==
    LET key == <<width, height>>
        hit == key \in DOMAIN cache
        fresh == NewRef(heap)
        heap1 == IF hit THEN heap
                 ELSE (fresh :> Rasterize(shapes, width, height, shift)) @@ heap
        cache1 == IF hit THEN cache ELSE (key :> fresh) @@ cache
        copy == np_copy(heap1, cache1[key])
    IN  [LAND_CACHE |-> cache1, arrays |-> copy.arrays, globe |-> copy.ref, hit |-> hit]

----------------------------------------------------------------------------
(* apply_day_night_shading(globe, longitude_shift, width); the hour of the *)
(* clock it reads is a parameter here.                                     *)

\* line 62
sun_longitude(hour) == (hour * DEGREES_PER_HOUR) % FULL_TURN

\* a variant that leaves the rotation offset out
ColumnLongitudeUnrotated(x, width, shift) ==
    RMod(RSub(RMulInt(Rat(x, width), FULL_TURN), RInt(HALF_TURN)), FULL_TURN)

\* line 66: the longitude the shading gives column x
ColumnLongitude(x, width, shift) ==
    RMod(RAdd(RSub(RMulInt(Rat(x, width), FULL_TURN), RInt(HALF_TURN)), shift), FULL_TURN)

\* line 67
brightness(lon, hour) == RDivInt(RAbs(RSub(lon, RInt(sun_longitude(hour)))), HALF_TURN)

\* line 68: the 0-based index into ASCII_SHADES
shade_index(x, width, shift, hour) ==
    Min(RTrunc(RMulInt(brightness(ColumnLongitude(x, width, shift), hour),
                       Len(ASCII_SHADES) - 1)),
        Len(ASCII_SHADES) - 1)

\* a variant that shades ocean cells too
ShadeCellEverywhere(cell, index) == ASCII_SHADES[index + 1]

\* line 69: the glyph a cell gets
ShadeCell(cell, index) == IF cell # " " THEN ASCII_SHADES[index + 1] ELSE " "

\* lines 64-69: the contents of the array after the in-place loop (the index
\* of a column is the same in every row, so it is computed once per column)
apply_day_night_shading(g, shift, width, hour) ==
    LET index == [x \in 1..width |-> shade_index(x - 1, width, shift, hour)]
    IN  [y \in 1..Len(g) |->
            [x \in 1..Len(g[y]) |->
                IF x <= width THEN ShadeCell(g[y][x], index[x]) ELSE g[y][x]]]

\* what one call computes: per column the longitude, the brightness and the
\* ramp index (the locals of lines 66-68), and the array after the call
ShadeTrace(g, shift, width, hour) ==
    [lon |-> [x \in 1..width |-> ColumnLongitude(x - 1, width, shift)],
     brightness |-> [x \in 1..width |->
                        brightness(ColumnLongitude(x - 1, width, shift), hour)],
     index |-> [x \in 1..width |-> shade_index(x - 1, width, shift, hour)],
     out |-> apply_day_night_shading(g, shift, width, hour)]

----------------------------------------------------------------------------
(* render_globe(stdscr): one iteration of the loop is one step             *)

\* Python's truth value of prev_globe_strings (line 92)
Truthy(lst) == lst.set /\ Len(lst.rows) > 0

\* lines 92-99: the rows written to the screen, the indices used to read the
\* previous frame, and whether prev_globe_strings[i] raised IndexError
DiffRows(prev, cur) ==
    IF Truthy(prev)
    THEN LET n == Len(cur)
             m == Len(prev.rows)
         IN  [written |-> {i \in 0..(Min(n, m) - 1) : prev.rows[i + 1] # cur[i + 1]},
              reads |-> 0..(IF n > m THEN m ELSE n - 1),
              error |-> n > m]
    ELSE [written |-> 0..(Len(cur) - 1), reads |-> {}, error |-> FALSE]

----------------------------------------------------------------------------
(* Bounds of the render loop *)

\* the terminal is MAX_WIDTH + MARGIN - 1 .. MaxTermCols columns wide
MaxTermCols == 82

\* ... and MIN_HEIGHT + MARGIN - 1 .. MaxTermLines lines high
MaxTermLines == 13

\* the loop runs at most MaxFrames iterations
MaxFrames == 3

\* the clock shows the hours 0..MaxHour
MaxHour == 1

TermCols == (MAX_WIDTH + MARGIN - 1)..MaxTermCols

TermLines == (MIN_HEIGHT + MARGIN - 1)..MaxTermLines

\* the land feature: no land, one land mass, two land masses
LandChoices ==
    { {},
      {[w |-> -20, e |-> 50, s |-> -35, n |-> 37]},
      {[w |-> -125, e |-> -70, s |-> 25, n |-> 50],
       [w |-> 113, e |-> 154, s |-> -39, n |-> -11]} }

\* the arrays still referenced once the local globe is rebound
Referenced(cache, heap) ==
    [r \in {cache[k] : k \in DOMAIN cache} |-> heap[r]]

\* line 83
ClampedWidth(cols) == Max(MIN_WIDTH, Min(cols - MARGIN, MAX_WIDTH))

\* line 84
ClampedHeight(lines) == Max(MIN_HEIGHT, Min(lines - MARGIN, MAX_HEIGHT))

\* lines 86-108, for the width and height lines 82-84 give; the key getch
\* returns is read last
RenderStep(width, height) ==
    /\ pc = "running"
    /\ frames < MaxFrames
    /\ \E gen \in {generate_globe(LAND_CACHE, Referenced(LAND_CACHE, arrays),
                                  land_shapes, longitude_shift, width, height)} :
       \E land \in {gen.arrays[gen.globe]} :
       \E globe_strings \in {apply_day_night_shading(land, RInt(longitude_shift),
                                                     width, utc_hour)} :
       \E diff \in {DiffRows(prev_globe_strings, globe_strings)} :
           LET k == <<width, height>>
           IN  /\ LAND_CACHE' = gen.LAND_CACHE
               /\ arrays' = [gen.arrays EXCEPT ![gen.globe] = globe_strings]
               /\ globe' = gen.globe
               /\ frames' = frames + 1
               /\ populated' =
                    IF gen.hit THEN populated
                    ELSE (k :> [shift |-> longitude_shift,
                                grid |-> gen.arrays[gen.LAND_CACHE[k]],
                                count |-> IF k \in DOMAIN populated
                                          THEN populated[k].count + 1 ELSE 1])
                         @@ populated
               /\ returned' =
                    (k :> ((IF k \in DOMAIN returned THEN returned[k] ELSE {})
                           \cup {land}))
                    @@ returned
               /\ last' = [done |-> TRUE, width |-> width, height |-> height,
                           shift |-> longitude_shift, hit |-> gen.hit, land |-> land,
                           prev |-> prev_globe_strings, cur |-> globe_strings,
                           written |-> diff.written, reads |-> diff.reads]
               /\ IF diff.error
                  THEN /\ pc' = "crashed"
                       /\ UNCHANGED <<prev_globe_strings, longitude_shift>>
                  ELSE /\ prev_globe_strings' = [set |-> TRUE, rows |-> globe_strings]
                       /\ longitude_shift' = (longitude_shift + ROTATION_SPEED) % FULL_TURN
                       /\ \E key \in {"q", ""} :
                              pc' = IF key = "q" THEN "quit" ELSE "running"
    /\ UNCHANGED <<land_shapes, utc_hour, call, ret>>

\* the hour of the clock advances
ClockTick ==
    /\ pc = "running"
    /\ utc_hour < MaxHour
    /\ utc_hour' = (utc_hour + 1) % HOURS_PER_DAY
    /\ UNCHANGED <<pc, longitude_shift, prev_globe_strings, LAND_CACHE, arrays, globe,
                   land_shapes, frames, last, populated, returned, call, ret>>

----------------------------------------------------------------------------
(* Direct calls of lat_lon_to_screen on inputs of its whole domain          *)

MapLats == {Rat(45 * k, 2) : k \in -4..4}

MapLons == {Rat(45 * k, 2) : k \in -MaxLonK..MaxLonK}

MapShifts == {Rat(75 * k, 2) : k \in -MaxShiftK..MaxShiftK}

InitLoop ==
    /\ pc = "running"
    /\ longitude_shift = 0
    /\ prev_globe_strings = [set |-> FALSE, rows |-> <<>>]
    /\ LAND_CACHE = <<>>
    /\ arrays = <<>>
    /\ globe = NoArray
    /\ frames = 0
    /\ last = [done |-> FALSE]
    /\ populated = <<>>
    /\ returned = <<>>

Init ==
    /\ InitLoop
    /\ land_shapes \in LandChoices
    /\ utc_hour \in 0..MaxHour
    /\ call = [op |-> "none"]
    /\ ret = <<>>

\* one iteration, at any size the terminal may have (line 82)
Render == \E size \in {<<ClampedWidth(cols), ClampedHeight(lines)>> :
                          cols \in TermCols, lines \in TermLines} :
              RenderStep(size[1], size[2])

Next == Render \/ ClockTick

Spec == Init /\ [][Next]_vars

----------------------------------------------------------------------------
(* Claims about the render loop (specification Spec)                       *)

\* the grid the cache holds for key k
Stored(k) == arrays[LAND_CACHE[k]]

\* C2: after any sequence of render steps, at any rotation offsets and
\* interleaved with other sizes, a cache entry is never modified or removed
\* once stored and is populated at most once, so all generate_globe calls with
\* the same (width, height) return equal land grids (the stored one).
C2_CacheEntryFrozen ==
    [][ /\ \A k \in DOMAIN LAND_CACHE :
               /\ k \in DOMAIN LAND_CACHE'
               /\ arrays'[LAND_CACHE'[k]] = arrays[LAND_CACHE[k]]
        /\ \A k \in DOMAIN LAND_CACHE' :
               /\ populated'[k].count = 1
               /\ populated'[k].grid = arrays'[LAND_CACHE'[k]]
               /\ returned'[k] = {arrays'[LAND_CACHE'[k]]} ]_vars

\* a cache hit at a later rotation, after another size was rendered, on a grid
\* with land that the shading of this frame has painted over in the copy
C2_Witness ==
    /\ last.done /\ last.hit
    /\ last.shift = 2 * ROTATION_SPEED
    /\ Cardinality(DOMAIN LAND_CACHE) >= 2
    /\ \E y \in 1..last.height, x \in 1..last.width :
           /\ Stored(<<last.width, last.height>>)[y][x] = "#"
           /\ arrays[globe][y][x] # "#"
    /\ returned[<<last.width, last.height>>] = {Stored(<<last.width, last.height>>)}

\* C3: every land grid stored in the cache is populated in the unrotated
\* frame: it is the grid the samples give when mapped with rotation 0,
\* whatever the live rotation offset was when its key was first requested.
C3_CacheUnrotated ==
    \A k \in DOMAIN LAND_CACHE : Stored(k) = Rasterize(land_shapes, k[1], k[2], 0)

\* the longitude of the west edge of column x (line 66, unrotated)
CellLongitude(x, width) == ColumnLongitude(x, width, RInt(0))

\* the column the mapper gives the longitude of column x under rotation
\* offset shift
RemappedColumn(x, shift, width, height) ==
    lat_lon_to_screen(RInt(0), CellLongitude(x, width), width, height, RInt(shift))[1]

\* C4: on a cache hit the live rotation offset is reapplied by coordinate
\* remap: the grid generate_globe returns for rotation r has each land cell of
\* the stored grid at the column the mapper gives for offset r, and no other
\* land, so land does not stay in the columns of the stored grid.
C4_RotationReapplied ==
    (last.done /\ last.hit) =>
        \A stored \in {Stored(<<last.width, last.height>>)} :
        \A y \in 1..last.height, x \in 1..last.width :
            /\ stored[y][x] = "#" =>
                   last.land[y][RemappedColumn(x - 1, last.shift, last.width,
                                               last.height) + 1] = "#"
            /\ last.land[y][x] = "#" =>
                   \E x0 \in 1..last.width :
                       /\ stored[y][x0] = "#"
                       /\ RemappedColumn(x0 - 1, last.shift, last.width,
                                         last.height) + 1 = x

\* the rows the differencer is to report: all of them without a previous
\* frame, else those that differ from the previous frame's row (a row the
\* previous frame does not have differs)
RowsToRedraw(prev, cur) ==
    IF ~prev.set
    THEN 0..(Len(cur) - 1)
    ELSE {i \in 0..(Len(cur) - 1) : i >= Len(prev.rows) \/ prev.rows[i + 1] # cur[i + 1]}

\* C5: in every iteration the rows written are all rows when there is no
\* previous frame, otherwise exactly the rows i with previous[i] # current[i],
\* and after the iteration the stored previous frame is the frame just produced.
C5_DiffExact ==
    last.done =>
        /\ last.written = RowsToRedraw(last.prev, last.cur)
        /\ prev_globe_strings = [set |-> TRUE, rows |-> last.cur]

\* C10: no render step is fatal for any sequence of terminal sizes: every row
\* index used to read the previous frame is within its bounds, and every row
\* of the current frame is compared against a previous row of the same width.
C10_NoFatalStep ==
    /\ pc # "crashed"
    /\ last.done =>
           \A i \in last.reads :
               /\ i < Len(last.prev.rows)
               /\ Len(last.prev.rows[i + 1]) = Len(last.cur[i + 1])

\* the arguments of one call, drawn from the function's domain
InitMapper ==
    /\ InitLoop
    /\ land_shapes = {}
    /\ utc_hour = 0
    /\ \E lat \in MapLats, lon \in MapLons, shift \in MapShifts,
          width \in 1..MaxMapWidth, height \in 1..MaxMapHeight :
           call = [op |-> "pending", lat |-> lat, lon |-> lon, width |-> width,
                   height |-> height, shift |-> shift]
    /\ ret = <<>>

CallMapper ==
    /\ call.op = "pending"
    /\ call' = [call EXCEPT !.op = "lat_lon_to_screen"]
    /\ ret' = lat_lon_to_screen(call.lat, call.lon, call.width, call.height, call.shift)
    /\ UNCHANGED loopVars

NextMapper == CallMapper

SpecMapper == InitMapper /\ [][NextMapper]_vars

\* C1: for every latitude in [-90, 90], every longitude, every rotation offset
\* and every width > 0 and height > 0, lat_lon_to_screen returns (col, row)
\* with 0 <= col < width and 0 <= row < height.
C1_MapperInRange ==
    call.op = "lat_lon_to_screen" =>
        /\ 0 <= ret[1] /\ ret[1] < call.width
        /\ 0 <= ret[2] /\ ret[2] < call.height

\* the south pole on the seam, under a negative rotation offset: the row is
\* the last one and the column is 0
C1_Witness ==
    /\ call.op = "lat_lon_to_screen"
    /\ call.lat = Rat(-180, 2)
    /\ REq(ShiftedLongitude(call.lon, call.shift), RInt(HALF_TURN))
    /\ call.shift.n < 0
    /\ call.height > 1 /\ call.width > 1
    /\ ret = <<0, call.height - 1>>

----------------------------------------------------------------------------
(* Direct calls of apply_day_night_shading (specification SpecShade)       *)

\* the arrays have MIN_WIDTH..MaxShadeWidth columns
MaxShadeWidth == 21

\* ... and ShadeRows rows
ShadeRows == 2

\* ... with land in the cells (x, y) where (x + y) % 3 < p, p in 0..MaxPattern
MaxPattern == 3

\* the rotation offsets the loop produces (line 104)
LoopShifts == {(k * ROTATION_SPEED) % FULL_TURN : k \in 0..(FULL_TURN \div ROTATION_SPEED - 1)}

\* an array as generate_globe returns them: "#" on land, " " on ocean
PatternGlobe(width, p) ==
    [y \in 1..ShadeRows |-> [x \in 1..width |-> IF (x + y) % 3 < p THEN "#" ELSE " "]]

InitShade ==
    /\ InitLoop
    /\ land_shapes = {}
    /\ utc_hour \in 0..(HOURS_PER_DAY - 1)
    /\ \E width \in MIN_WIDTH..MaxShadeWidth, p \in 0..MaxPattern, shift \in LoopShifts :
           call = [op |-> "pending", globe |-> PatternGlobe(width, p), width |-> width,
                   shift |-> shift]
    /\ ret = <<>>

CallShading ==
    /\ call.op = "pending"
    /\ call' = [call EXCEPT !.op = "apply_day_night_shading"]
    /\ ret' = ShadeTrace(call.globe, RInt(call.shift), call.width, utc_hour)
    /\ UNCHANGED loopVars

NextShade == CallShading

SpecShade == InitShade /\ [][NextShade]_vars

Shaded == call.op = "apply_day_night_shading"

\* the sub-solar longitude of the call
Sun == RInt(sun_longitude(utc_hour))

\* The ramp " .:-=+*#%@" runs from the lightest glyph (the blank, no ink) to
\* the densest one: its first glyph is the brightest, its last the darkest.
BrightestGlyph == ASCII_SHADES[1]

DarkestGlyph == ASCII_SHADES[Len(ASCII_SHADES)]

AngularDistance(lon) ==
    LET d == RAbs(RSub(lon, Sun))
    IN  IF RGt(d, RInt(HALF_TURN)) THEN RSub(RInt(FULL_TURN), d) ELSE d

\* C7: for every column, rotation offset and UTC hour the brightness that is
\* quantized is the shortest angular distance min(d, 360 - d) / 180 to the
\* sub-solar longitude, a value in [0, 1]; the darkest glyph is selected at
\* exactly 180 degrees; two columns at the same angular distance east and west
\* of the sub-solar longitude get the same ramp index.
C7_ShortestDistance ==
    Shaded =>
        /\ \A x \in 1..call.width :
               /\ REq(ret.brightness[x], RDivInt(AngularDistance(ret.lon[x]), HALF_TURN))
               /\ ~RGt(ret.brightness[x], RInt(1))
               /\ REq(AngularDistance(ret.lon[x]), RInt(HALF_TURN)) =>
                      ASCII_SHADES[ret.index[x] + 1] = DarkestGlyph
        /\ \A x1, x2 \in 1..call.width :
               REq(AngularDistance(ret.lon[x1]), AngularDistance(ret.lon[x2])) =>
                   ret.index[x1] = ret.index[x2]

\* C8: the longitude the shading assigns to column x under rotation offset r
\* is the longitude displayed there: lat_lon_to_screen applied to it with the
\* same offset r returns column x.
C8_ShadingAgreesWithMapper ==
    Shaded =>
        \A x \in 1..call.width :
            lat_lon_to_screen(RInt(0), ret.lon[x], call.width, Len(call.globe),
                              RInt(call.shift))[1] = x - 1

----------------------------------------------------------------------------
(* The shading at rotation offsets 0 and 180 (specification SpecRotation)  *)

\* one row of land
LandRow(width) == <<[x \in 1..width |-> "#"]>>

InitRotation ==
    /\ InitLoop
    /\ land_shapes = {}
    /\ utc_hour \in 0..(HOURS_PER_DAY - 1)
    /\ \E width \in MIN_WIDTH..MAX_WIDTH :
           call = [op |-> "pending", globe |-> LandRow(width), width |-> width]
    /\ ret = <<>>

CallShadingTwice ==
    /\ call.op = "pending"
    /\ call' = [call EXCEPT !.op = "rotation 0 and 180"]
    /\ ret' = [at0 |-> ShadeTrace(call.globe, RInt(0), call.width, utc_hour),
               at180 |-> ShadeTrace(call.globe, RInt(HALF_TURN), call.width, utc_hour)]
    /\ UNCHANGED loopVars

NextRotation == CallShadingTwice

SpecRotation == InitRotation /\ [][NextRotation]_vars

\* every column that shows the sub-solar longitude at rotation 0 has a column
\* exactly width / 2 columns away (modulo width) that shows it at rotation
\* 180, both with ramp index 0
SunColumnMovesHalfWidth ==
    \A x \in 1..call.width :
        REq(ret.at0.lon[x], Sun) =>
            /\ ret.at0.index[x] = 0
            /\ \E x1 \in 1..call.width :
                   /\ REq(ret.at180.lon[x1], Sun)
                   /\ ret.at180.index[x1] = 0
                   /\ 2 * ((x1 - x) % call.width) = call.width

\* C9 (as stated): for a fixed UTC hour and any width in [20, 80], changing the
\* rotation offset from 0 to 180 moves the column whose shading longitude is
\* the sub-solar longitude (the column with ramp index 0) by exactly width / 2
\* columns modulo width.
C9_AnyWidth ==
    call.op = "rotation 0 and 180" => SunColumnMovesHalfWidth

\* C9 (amended): the same for every even width in [20, 80].
C9_EvenWidth ==
    (call.op = "rotation 0 and 180" /\ call.width % 2 = 0) => SunColumnMovesHalfWidth

\* an even width and an hour with a sub-solar column at rotation 0 that is
\* not column 0, and the column half a width away at rotation 180
C9_Witness ==
    /\ call.op = "rotation 0 and 180"
    /\ call.width % 2 = 0
    /\ utc_hour # 0
    /\ \E x \in 2..call.width :
           /\ REq(ret.at0.lon[x], Sun)
           /\ REq(ret.at180.lon[((x - 1 + call.width \div 2) % call.width) + 1], Sun)

====
